---- MODULE Spec2Model ----
(***************************************************************************)
(* State-machine model of BaseConfig (src/model/enc/config_base.py): a     *)
(* heap of configuration nodes whose fields hold plain values or           *)
(* references to other nodes, and the operations clone, inherit,           *)
(* propagate, save, load, from_dict and as_dict_jsonable.                  *)
(***************************************************************************)
EXTENDS Integers, Sequences, FiniteSets, TLC

\* ------------------------------------------------------------------ bounds
\* MaxNodes: size of the object heap (node identities 1..MaxNodes).
\* RecLimit: the interpreter's recursion limit in frames, scaled down.
\* MaxOps:   number of calls made on the heap in one behaviour.
MaxNodes == 5
RecLimit == 6
MaxOps == 2

NodeIds == 1..MaxNodes

\* Field names a configuration class may declare, in __dict__ (declaration)
\* order (every class here declares its fields in this relative order; no
\* class declares z), and the attributes every BaseConfig has on its class,
\* not in __dict__ (its methods; "save" stands for all of them).
FieldOrder == <<"x", "c", "g", "z">>
Names      == {FieldOrder[i] : i \in 1..Len(FieldOrder)}
ClassAttrs == {"save"}

\* ------------------------------------------------------------------ values
\* Every Python value is a record of one shape, so any two can be compared.
\*   undef : the field is not declared (no such key in __dict__)
\*   int   : a number            tuple : the tuple (n,)      list : [n]
\*   enum  : an Enum member of choices.py (immutable, not JSON-serialisable)
\*   node  : a reference to the BaseConfig object with identity n
\*   dict  : a mapping, m its items in insertion order
Undef     == [t |-> "undef", n |-> 0, m |-> <<>>]
IntV(i)   == [t |-> "int",   n |-> i, m |-> <<>>]
TupleV(i) == [t |-> "tuple", n |-> i, m |-> <<>>]
ListV(i)  == [t |-> "list",  n |-> i, m |-> <<>>]
EnumV(i)  == [t |-> "enum",  n |-> i, m |-> <<>>]
NodeV(i)  == [t |-> "node",  n |-> i, m |-> <<>>]
DictV(s)  == [t |-> "dict",  n |-> 0, m |-> s]

IsNode(v) == v.t = "node"

EmptyNode == [k \in Names |-> Undef]

\* self.__dict__.keys()
Declared(h, a) == {k \in Names : h[a][k] # Undef}

\* hasattr(self, k): instance attributes and class attributes alike
HasAttr(h, a, k) == k \in Declared(h, a) \/ k \in ClassAttrs

\* The nodes referenced directly by the fields of a
Children(h, a) == {h[a][k].n : k \in {f \in Names : IsNode(h[a][f])}}

RECURSIVE ReachFrom(_, _)
ReachFrom(h, S) ==
  LET T == S \cup UNION {Children(h, a) : a \in S}
  IN  IF T = S THEN S ELSE ReachFrom(h, T)

\* a and every node reachable from a through node-valued fields
Reach(h, a) == ReachFrom(h, {a})

\* ----------------------------------------------------------------- inherit
\* Faulty variant: copies every field the source declares, adding the missing ones.
InheritAddsFields(h, a, b) ==
  [h EXCEPT ![a] = [k \in Names |->
      IF k \in Declared(h, b) THEN h[b][k] ELSE h[a][k]]]

\* a.inherit(b): setattr(a, k, getattr(b, k)) for the common keys
Inherit(h, a, b) ==
  [h EXCEPT ![a] = [k \in Names |->
      IF k \in Declared(h, a) \cap Declared(h, b) THEN h[b][k] ELSE h[a][k]]]

\* --------------------------------------------------------------- propagate
\* a.propagate() with d frames left; the loop reads a's items as it goes.
\* Result: the heap reached and "ok" or the exception that ended the call.
\* (CHOOSE over a one-element set binds an intermediate result once.)
RECURSIVE PropagateFrom(_, _, _, _)
PropagateFrom(h, a, i, d) ==
  IF i > Len(FieldOrder) THEN [h |-> h, err |-> "ok"]
  ELSE LET v == h[a][FieldOrder[i]]
       IN  IF ~IsNode(v) THEN PropagateFrom(h, a, i + 1, d)
           ELSE IF d <= 1 THEN [h |-> h, err |-> "RecursionError"]
           ELSE CHOOSE res \in
                  { IF r.err # "ok" THEN r ELSE PropagateFrom(r.h, a, i + 1, d) :
                    r \in { PropagateFrom(h1, v.n, 1, d - 1) :
                            h1 \in {Inherit(h, v.n, a)} } } : TRUE

Propagate(h, a) == PropagateFrom(h, a, 1, RecLimit)

\* -------------------------------------------------------- as_dict_jsonable
\* jsonable(x): json.dumps(x) succeeds; only TypeError is caught (line 97).
RECURSIVE Jsonable(_)
Jsonable(v) ==
  CASE v.t \in {"int", "tuple", "list"} -> TRUE
    [] v.t = "dict" -> \A i \in 1..Len(v.m) : Jsonable(v.m[i][2])
    [] OTHER -> FALSE

\* a.as_dict_jsonable() with d frames left, from the i-th field on.
RECURSIVE AsDictFrom(_, _, _, _, _)
AsDictFrom(h, a, i, d, acc) ==
  IF i > Len(FieldOrder) THEN [err |-> "ok", v |-> DictV(acc)]
  ELSE LET k == FieldOrder[i]
           v == h[a][k]
       IN  IF v = Undef THEN AsDictFrom(h, a, i + 1, d, acc)
           ELSE IF IsNode(v)
             THEN IF d <= 1 THEN [err |-> "RecursionError", v |-> Undef]
                  ELSE LET r == AsDictFrom(h, v.n, 1, d - 1, <<>>)
                       IN  IF r.err # "ok" THEN r
                           ELSE AsDictFrom(h, a, i + 1, d, Append(acc, <<k, r.v>>))
           ELSE IF Jsonable(v)
             THEN AsDictFrom(h, a, i + 1, d, Append(acc, <<k, v>>))
             ELSE AsDictFrom(h, a, i + 1, d, acc)

AsDictJsonable(h, a) == AsDictFrom(h, a, 1, RecLimit, <<>>)

\* ------------------------------------------------------------------- JSON
\* json.dump: numbers, arrays (from lists and from tuples alike) and objects.
RECURSIVE JsonDump(_), JsonDumpItems(_, _, _)
JsonDump(v) ==
  CASE v.t = "int" -> [t |-> "number", n |-> v.n, m |-> <<>>]
    [] v.t \in {"tuple", "list"} -> [t |-> "array", n |-> v.n, m |-> <<>>]
    [] v.t = "dict" -> [t |-> "object", n |-> 0, m |-> JsonDumpItems(v.m, 1, <<>>)]
    [] OTHER -> Undef
JsonDumpItems(items, i, acc) ==
  IF i > Len(items) THEN acc
  ELSE JsonDumpItems(items, i + 1,
                     Append(acc, <<items[i][1], JsonDump(items[i][2])>>))

\* json.load: numbers, lists and dicts.
RECURSIVE JsonLoad(_), JsonLoadItems(_, _, _)
JsonLoad(j) ==
  CASE j.t = "number" -> IntV(j.n)
    [] j.t = "array" -> ListV(j.n)
    [] j.t = "object" -> DictV(JsonLoadItems(j.m, 1, <<>>))
    [] OTHER -> Undef
JsonLoadItems(items, i, acc) ==
  IF i > Len(items) THEN acc
  ELSE JsonLoadItems(items, i + 1,
                     Append(acc, <<items[i][1], JsonLoad(items[i][2])>>))

\* --------------------------------------------------------------- from_dict
\* Faulty variant: an unknown key becomes a new field.
RECURSIVE FromDictMerge(_, _, _, _, _, _)
FromDictMerge(h, a, items, i, strict, diag) ==
  IF i > Len(items) THEN [h |-> h, err |-> "ok", diag |-> diag]
  ELSE LET k == items[i][1]
           v == items[i][2]
       IN  IF k \notin Names
             THEN [h |-> h, err |-> "KeyError", diag |-> diag]
           ELSE IF IsNode(h[a][k])
             THEN IF v.t # "dict"
                    THEN [h |-> h, err |-> "AttributeError", diag |-> diag]
                    ELSE LET r == FromDictMerge(h, h[a][k].n, v.m, 1, FALSE, diag)
                         IN  IF r.err # "ok" THEN r
                             ELSE FromDictMerge(r.h, a, items, i + 1, strict, r.diag)
           ELSE FromDictMerge([h EXCEPT ![a][k] = v], a, items, i + 1, strict, diag)

\* a.from_dict(items, strict) from the i-th item on; diag is what was printed.
RECURSIVE FromDictFrom(_, _, _, _, _, _)
FromDictFrom(h, a, items, i, strict, diag) ==
  IF i > Len(items) THEN [h |-> h, err |-> "ok", diag |-> diag]
  ELSE LET k == items[i][1]
           v == items[i][2]
       IN  IF ~HasAttr(h, a, k)
             THEN IF strict
                    THEN [h |-> h, err |-> "ValueError", diag |-> diag]
                    ELSE FromDictFrom(h, a, items, i + 1, strict, Append(diag, k))
           ELSE IF k \notin Declared(h, a)
             THEN [h |-> h, err |-> "KeyError", diag |-> diag]
           ELSE IF IsNode(h[a][k])
             THEN IF v.t # "dict"
                    THEN [h |-> h, err |-> "AttributeError", diag |-> diag]
                    ELSE LET r == FromDictFrom(h, h[a][k].n, v.m, 1, FALSE, diag)
                         IN  IF r.err # "ok" THEN r
                             ELSE FromDictFrom(r.h, a, items, i + 1, strict, r.diag)
           ELSE FromDictFrom([h EXCEPT ![a][k] = v], a, items, i + 1, strict, diag)

FromDict(h, a, dv, strict) == FromDictFrom(h, a, dv.m, 1, strict, <<>>)

\* ------------------------------------------------------------------- clone
Rank(S, x) == Cardinality({y \in S : y < x}) + 1
Nth(S, i)  == CHOOSE x \in S : Rank(S, x) = i

\* deepcopy's memo: every node reachable from a gets one fresh identity.
Memo(h, al, a) ==
  LET R == Reach(h, a)
  IN  [o \in R |-> Nth(NodeIds \ al, Rank(R, o))]

\* Faulty variant: copy.copy, a new object whose fields hold the same references.
CloneShallow(h, al, a) ==
  LET new == Nth(NodeIds \ al, 1)
  IN  [h |-> [h EXCEPT ![new] = h[a]], root |-> new, of |-> [n \in {new} |-> a]]

\* deepcopy(a): the heap with the copies in it, and the copy of a.
Clone(h, al, a) ==
  LET mm  == Memo(h, al, a)
      R   == DOMAIN mm
      new == {mm[o] : o \in R}
      src(n) == CHOOSE o \in R : mm[o] = n
      copy(v) == IF IsNode(v) THEN NodeV(mm[v.n]) ELSE v
  IN  [h |-> [n \in NodeIds |->
                IF n \in new THEN [k \in Names |-> copy(h[src(n)][k])] ELSE h[n]],
       root |-> mm[a], of |-> [n \in new |-> src(n)]]

\* ------------------------------------------------------------------- state
VARIABLES
  heap,      \* NodeIds -> fields of the object (Undef where not declared)
  alloc,     \* the identities in use
  schema,    \* NodeIds -> the field names the object was constructed with
  cls,       \* NodeIds -> the class of the object (0: no object), named by
             \* the identity its first instance has
  init,      \* the heap at start: what each class's constructor builds
  file,      \* the JSON text at the save path, Undef while there is none
  saved,     \* which object was saved last, and the heap at that time
  cl,        \* the last clone() call: original, copy, heap just after it,
             \* and on which side calls were made since
  pre,       \* the heap before the last call
  last,      \* the last call: operation, operands, outcome
  nops       \* calls made so far

vars == <<heap, alloc, schema, cls, init, file, saved, cl, pre, last, nops>>

NoCall == [op |-> "none", a |-> 0, b |-> 0, arg |-> Undef, strict |-> FALSE,
           err |-> "ok", out |-> Undef, diag |-> <<>>]

NoClone == [o |-> 0, c |-> 0, h |-> [n \in NodeIds |-> EmptyNode], side |-> "none"]
NoSave  == [a |-> 0, h |-> [n \in NodeIds |-> EmptyNode]]

\* The configuration classes instantiated at start: a root holding a child in
\* c, the child holding a grandchild in c or in g, with the plain fields below.
RootG   == {Undef, TupleV(1)}
ChildX  == {Undef, IntV(2)}
Holders == {"c", "g"}
Leaves  == { [x |-> IntV(2), c |-> Undef,   g |-> Undef,    z |-> Undef],
             [x |-> Undef,   c |-> IntV(1), g |-> EnumV(1), z |-> Undef],
             EmptyNode }

Tree(rg, cx, hold, leaf) ==
  [n \in NodeIds |->
     CASE n = 1 -> [x |-> IntV(1), c |-> NodeV(2), g |-> rg, z |-> Undef]
       [] n = 2 -> [x |-> cx,
                    c |-> IF hold = "c" THEN NodeV(3) ELSE Undef,
                    g |-> IF hold = "g" THEN NodeV(3) ELSE Undef,
                    z |-> Undef]
       [] n = 3 -> leaf
       [] OTHER -> EmptyNode]

Init ==
  /\ \E rg \in RootG, cx \in ChildX, hold \in Holders, leaf \in Leaves :
       heap = Tree(rg, cx, hold, leaf)
  /\ alloc = {1, 2, 3}
  /\ schema = [n \in NodeIds |-> Declared(heap, n)]
  /\ cls = [n \in NodeIds |-> IF n \in {1, 2, 3} THEN n ELSE 0]
  /\ init = heap
  /\ file = Undef
  /\ saved = NoSave
  /\ cl = NoClone
  /\ pre = heap
  /\ last = NoCall
  /\ nops = 0

\* The mappings handed to from_dict.
Dicts ==
  { DictV(<< <<"z", IntV(5)>>, <<"x", IntV(3)>> >>),
    DictV(<< <<"save", IntV(5)>>, <<"x", IntV(3)>> >>),
    DictV(<< <<"c", DictV(<< <<"z", IntV(5)>>, <<"x", IntV(3)>> >>)>>,
             <<"x", IntV(3)>> >>),
    DictV(<< <<"c", DictV(<< <<"save", IntV(5)>> >>)>>, <<"x", IntV(3)>> >>) }

\* On which side of the last clone a call with operands S falls.
Side(S) ==
  IF cl.c = 0 THEN "none"
  ELSE LET t == IF S \subseteq Reach(heap, cl.c) THEN "clone"
                ELSE IF S \subseteq Reach(heap, cl.o) THEN "orig"
                ELSE "mixed"
       IN  IF cl.side \in {"none", t} THEN t ELSE "mixed"

Touch(S) == cl' = [cl EXCEPT !.side = Side(S)]

Called(c) ==
  /\ last' = c
  /\ pre' = heap
  /\ nops' = nops + 1

\* a.inherit(b)
InheritCall(a, b) ==
  /\ nops < MaxOps
  /\ heap' = Inherit(heap, a, b)
  /\ Called([NoCall EXCEPT !.op = "inherit", !.a = a, !.b = b])
  /\ Touch({a, b})
  /\ UNCHANGED <<alloc, schema, cls, init, file, saved>>

\* a.propagate()
PropagateCall(a) ==
  /\ nops < MaxOps
  /\ LET r == Propagate(heap, a)
     IN  /\ heap' = r.h
         /\ Called([NoCall EXCEPT !.op = "propagate", !.a = a, !.err = r.err])
  /\ Touch({a})
  /\ UNCHANGED <<alloc, schema, cls, init, file, saved>>

\* a.clone()
CloneCall(a) ==
  /\ nops < MaxOps
  /\ Cardinality(NodeIds \ alloc) >= Cardinality(Reach(heap, a))
  /\ LET r == Clone(heap, alloc, a)
     IN  /\ heap' = r.h
         /\ alloc' = alloc \cup DOMAIN r.of
         /\ schema' = [n \in NodeIds |->
                         IF n \in DOMAIN r.of THEN Declared(r.h, n) ELSE schema[n]]
         /\ cls' = [n \in NodeIds |->
                      IF n \in DOMAIN r.of THEN cls[r.of[n]] ELSE cls[n]]
         /\ cl' = [o |-> a, c |-> r.root, h |-> r.h, side |-> "none"]
         /\ Called([NoCall EXCEPT !.op = "clone", !.a = a, !.out = NodeV(r.root)])
  /\ UNCHANGED <<init, file, saved>>

\* a.from_dict(d, strict)
FromDictCall(a, d, strict) ==
  /\ nops < MaxOps
  /\ LET r == FromDict(heap, a, d, strict)
     IN  /\ heap' = r.h
         /\ Called([NoCall EXCEPT !.op = "from_dict", !.a = a, !.arg = d,
                                  !.strict = strict, !.err = r.err, !.diag = r.diag])
  /\ Touch({a})
  /\ UNCHANGED <<alloc, schema, cls, init, file, saved>>

\* a.as_dict_jsonable()
AsDictCall(a) ==
  /\ nops < MaxOps
  /\ LET r == AsDictJsonable(heap, a)
     IN  Called([NoCall EXCEPT !.op = "as_dict_jsonable", !.a = a,
                               !.err = r.err, !.out = r.v])
  /\ UNCHANGED <<heap, alloc, schema, cls, init, file, saved, cl>>

\* a.save(path): nothing is written when the serialisation raises (the
\* path is taken to be writable)
SaveCall(a) ==
  /\ nops < MaxOps
  /\ LET r == AsDictJsonable(heap, a)
     IN  /\ file' = IF r.err = "ok" THEN JsonDump(r.v) ELSE file
         /\ saved' = IF r.err = "ok" THEN [a |-> a, h |-> heap] ELSE saved
         /\ Called([NoCall EXCEPT !.op = "save", !.a = a, !.err = r.err])
  /\ UNCHANGED <<heap, alloc, schema, cls, init, cl>>

\* a.load(path): from_dict of the parsed file, never strict
LoadCall(a) ==
  /\ nops < MaxOps
  /\ IF file = Undef
       THEN /\ heap' = heap
            /\ Called([NoCall EXCEPT !.op = "load", !.a = a,
                                     !.err = "FileNotFoundError"])
       ELSE LET d == JsonLoad(file)
                r == FromDict(heap, a, d, FALSE)
            IN  /\ heap' = r.h
                /\ Called([NoCall EXCEPT !.op = "load", !.a = a, !.arg = d,
                                         !.err = r.err, !.diag = r.diag])
  /\ Touch({a})
  /\ UNCHANGED <<alloc, schema, cls, init, file, saved>>

Next ==
  \/ \E a \in alloc, b \in alloc : InheritCall(a, b)
  \/ \E a \in alloc : PropagateCall(a)
  \/ \E a \in alloc : CloneCall(a)
  \/ \E a \in alloc, d \in Dicts, strict \in BOOLEAN : FromDictCall(a, d, strict)
  \/ \E a \in alloc : AsDictCall(a)
  \/ \E a \in alloc : SaveCall(a)
  \/ \E a \in alloc : LoadCall(a)

Spec == Init /\ [][Next]_vars

\* ----------------------------------------------------------------- helpers
Plain(v) == v # Undef /\ ~IsNode(v)

\* Field-by-field equality of a in h1 and b in h2 down d levels of nesting.
RECURSIVE DeepEqTo(_, _, _, _, _)
DeepEqTo(h1, a, h2, b, d) ==
  \A k \in Names :
    IF IsNode(h1[a][k]) /\ IsNode(h2[b][k])
      THEN d = 0 \/ DeepEqTo(h1, h1[a][k].n, h2, h2[b][k].n, d - 1)
      ELSE h1[a][k] = h2[b][k]

DeepEq(h1, a, h2, b) == DeepEqTo(h1, a, h2, b, MaxNodes)

\* The (object, field) pairs that hold a reference to n
HeldBy(h, n) ==
  {pk \in alloc \X Names : IsNode(h[pk[1]][pk[2]]) /\ h[pk[1]][pk[2]].n = n}

\* Exclusive ownership: at most one field of one parent holds each object, and
\* no object reaches itself.
Owned(h) ==
  /\ \A n \in alloc : Cardinality(HeldBy(h, n)) <= 1
  /\ \A n \in alloc : n \notin ReachFrom(h, Children(h, n))

\* The objects on chains from the objects of S on which every object
\* declares a plain-valued field f.
RECURSIVE ChainFrom(_, _, _)
ChainFrom(h, S, f) ==
  LET T == S \cup {c \in UNION {Children(h, a) : a \in S} : Plain(h[c][f])}
  IN  IF T = S THEN S ELSE ChainFrom(h, T, f)

Keys(d)   == {d.m[i][1] : i \in 1..Len(d.m)}
At(d, k)  == d.m[CHOOSE i \in 1..Len(d.m) : d.m[i][1] = k][2]
Printed   == {last.diag[i] : i \in 1..Len(last.diag)}

\* Keys of d that name no declared field of a / a plain field / a nested node
Unknown(h, a, d) == {k \in Keys(d) : k \notin Declared(h, a)}
PlainKeys(h, a, d) == {k \in Keys(d) \cap Names : Plain(h[a][k])}
NodeKeys(h, a, d) == {k \in Keys(d) \cap Names : IsNode(h[a][k])}

\* a serialises without an exception and without omitting a field at any level
Serialisable(h, a) ==
  /\ AsDictJsonable(h, a).err = "ok"
  /\ \A n \in Reach(h, a) : \A k \in Declared(h, n) :
       IsNode(h[n][k]) \/ Jsonable(h[n][k])

\* ------------------------------------------------------------------ claims

\* C1: after a.inherit(b), every field name declared by both holds the value
\* b had for it before the call, every field of a that b does not declare
\* keeps its value, a declares the same field names as before, the fields of
\* b and of every object other than a are as before, and with no common field
\* name nothing changes at all.
C1_InheritFrame ==
  last.op = "inherit" =>
    LET a == last.a
        b == last.b
        common == Declared(pre, a) \cap Declared(pre, b)
    IN  /\ \A k \in common : heap[a][k] = pre[b][k]
        /\ \A k \in Names \ Declared(pre, b) : heap[a][k] = pre[a][k]
        /\ Declared(heap, a) = Declared(pre, a)
        /\ heap[b] = pre[b]
        /\ \A n \in NodeIds \ {a} : heap[n] = pre[n]
        /\ common = {} => heap = pre

\* C1 witness: an inherit between two objects that share a field name and
\* differ in another changed the target.
C1_Witness ==
  /\ last.op = "inherit"
  /\ last.a # last.b
  /\ heap[last.a] # pre[last.a]
  /\ Declared(pre, last.a) \ Declared(pre, last.b) # {}
  /\ Declared(pre, last.b) \ Declared(pre, last.a) # {}

\* C6: every object declares exactly the field names it was constructed
\* with, whatever calls were made and however they ended.
C6_SchemaFixed ==
  \A n \in alloc : Declared(heap, n) = schema[n]

\* C6 witness: a second call, a non-strict from_dict that skipped the key z
\* and applied another key, has returned.
C6_Witness ==
  /\ nops = 2
  /\ last.op = "from_dict"
  /\ ~last.strict
  /\ last.err = "ok"
  /\ "z" \in Printed
  /\ heap # pre

C2_PropagateChain ==
  last.op = "propagate" /\ last.err = "ok" =>
    /\ \A f \in Names :
         Plain(pre[last.a][f]) =>
           \A n \in ChainFrom(pre, {last.a}, f) : heap[n][f] = pre[last.a][f]
    /\ heap[last.a] = pre[last.a]

\* C3: a file saved from an object whose fields are all serialisable at every
\* level, loaded into a default-valued instance of the same class, makes that
\* instance equal to the saved object in every field at every level.
C3_RoundTrip ==
  ( /\ last.op = "load"
    /\ saved.a # 0
    /\ cls[last.a] = cls[saved.a]
    /\ DeepEq(pre, last.a, init, cls[last.a])
    /\ Serialisable(saved.h, saved.a) )
  => /\ last.err = "ok"
     /\ DeepEq(heap, last.a, saved.h, saved.a)

\* C4: a mapping with a top-level key that names no declared field makes a
\* strict from_dict raise the extra-field error (ValueError); a non-strict
\* from_dict or load returns, prints each such key, applies every key that
\* names a declared field and changes nothing else.  (Stated for mappings
\* none of whose keys names a nested object.)
C4_UnknownKey ==
  ( /\ last.op \in {"from_dict", "load"}
    /\ last.arg # Undef
    /\ Unknown(pre, last.a, last.arg) # {}
    /\ NodeKeys(pre, last.a, last.arg) = {} )
  => IF last.strict
       THEN last.err = "ValueError"
       ELSE /\ last.err = "ok"
            /\ Unknown(pre, last.a, last.arg) \subseteq Printed
            /\ \A k \in PlainKeys(pre, last.a, last.arg) :
                 heap[last.a][k] = At(last.arg, k)
            /\ \A k \in Names \ PlainKeys(pre, last.a, last.arg) :
                 heap[last.a][k] = pre[last.a][k]
            /\ \A n \in NodeIds \ {last.a} : heap[n] = pre[n]

\* C5: as_dict_jsonable returns, and its mapping has exactly the fields that
\* hold a nested object (mapped to that object's own serialisation) or a
\* serialisable value (mapped to that value).
C5_AsDictTotal ==
  last.op = "as_dict_jsonable" =>
    /\ last.err = "ok"
    /\ last.out.t = "dict"
    /\ Keys(last.out) =
         {k \in Declared(heap, last.a) :
            IsNode(heap[last.a][k]) \/ Jsonable(heap[last.a][k])}
    /\ \A k \in Keys(last.out) :
         IF IsNode(heap[last.a][k])
           THEN At(last.out, k) = AsDictJsonable(heap, heap[last.a][k].n).v
           ELSE At(last.out, k) = heap[last.a][k]

\* C8: propagate() on an object of a heap in which every object is held by at
\* most one field of one parent and none reaches itself returns.
C8_PropagateReturns ==
  (last.op = "propagate" /\ Owned(pre)) => last.err = "ok"

\* C9: inherit and propagate keep exclusive ownership: called on a heap in
\* which every object is held by at most one field of one parent and none
\* reaches itself, they leave such a heap.
C9_OwnershipKept ==
  (last.op \in {"inherit", "propagate"} /\ Owned(pre)) => Owned(heap)

\* C10: a strict from_dict whose top-level keys all name declared fields, one
\* of them a nested object given a mapping with a key that names no declared
\* field of that object, returns: the key is printed and skipped, and the
\* other keys of the nested and of the outer mapping are applied.
C10_NestedNotStrict ==
  last.op = "from_dict" /\ last.strict /\ Unknown(pre, last.a, last.arg) = {} =>
    \A c \in NodeKeys(pre, last.a, last.arg) :
      LET sub == pre[last.a][c].n
          d == At(last.arg, c)
      IN  ( /\ d.t = "dict"
            /\ Unknown(pre, sub, d) # {}
            /\ NodeKeys(pre, sub, d) = {}
            /\ NodeKeys(pre, last.a, last.arg) = {c}
            /\ sub # last.a )
          => /\ last.err = "ok"
             /\ Unknown(pre, sub, d) \subseteq Printed
             /\ \A k \in PlainKeys(pre, sub, d) : heap[sub][k] = At(d, k)
             /\ \A k \in PlainKeys(pre, last.a, last.arg) :
                  heap[last.a][k] = At(last.arg, k)

====
